---- MODULE Spec2Model ----
(***************************************************************************)
(* PDFtoImage.py: the page-conversion worker (PdfProcessingThread) and the *)
(* interactive shell (PDFConverterApp) that starts it, cancels it and      *)
(* receives its signals through the GUI thread's event queue.              *)
(*                                                                         *)
(* One worker step is one stretch of run() between two points at which the *)
(* GUI thread can interleave.  The file system, the PDF library and the    *)
(* image encoder are the environment: each of their calls either succeeds  *)
(* or raises, chosen nondeterministically where the call is made.          *)
(***************************************************************************)
EXTENDS Integers, Sequences, FiniteSets, TLC

\* ------------------------------------------------------------------ bounds
MaxPages == 2
MaxRuns == 2

Runs == 1..MaxRuns
PageCounts == 0..MaxPages

\* ------------------------------------------------------- paths and formats
\* The file the user converts.  Its name is one that the outcome messages
\* embed (lines 32 and 39) and that on_conversion_finished then searches for
\* the word "cancelled" (lines 281 and 294).
InputPaths == {"docs/cancelled.pdf"}
UserDirs == {"docs/cancelled_images"}
\* combo_format.currentText(): the first item added is the current one
ComboCurrentText == "png"

\* os.path.dirname / os.path.basename / os.path.splitext on the paths above
Dirname(p) ==
  CASE p = "docs/cancelled.pdf" -> "docs"
    [] p = "docs/cancelled_images" -> "docs"
    [] OTHER -> ""

Basename(p) ==
  CASE p = "docs/cancelled.pdf" -> "cancelled.pdf"
    [] p = "docs/cancelled_images" -> "cancelled_images"
    [] OTHER -> p

SplitextBase(b) ==
  CASE b = "cancelled.pdf" -> "cancelled"
    [] OTHER -> b

\* os.path.join(dirname(file_name), f"{base}_images")
SuggestedDir(p) ==
  CASE SplitextBase(Basename(p)) = "cancelled" /\ Dirname(p) = "docs" -> "docs/cancelled_images"
    [] OTHER -> "_images"

\* str.lower() on the format names
Lower(s) ==
  CASE s = "PNG" -> "png"
    [] s = "JPG" -> "jpg"
    [] OTHER -> s

\* ------------------------------------------------------------------ state
VARIABLES
  threads,                \* run id -> PdfProcessingThread object and its run() frame
  files,                  \* image files on disk
  dirs,                   \* directories on disk
  uiq,                    \* signals queued for the GUI thread
  input_pdf_path,
  output_directory_path,
  processing_thread,      \* 0 is None, otherwise the run id of the thread object
  btn_start_conversion,   \* enabled?
  btn_cancel_conversion,  \* enabled?
  progress_bar,           \* [value, maximum, format]
  dialogs,                \* message boxes shown by the last handler that shows any
  closed                  \* the main window accepted its close event

vars == <<threads, files, dirs, uiq, input_pdf_path, output_directory_path,
          processing_thread, btn_start_conversion,
          btn_cancel_conversion, progress_bar, dialogs, closed>>

shellVars == <<input_pdf_path, output_directory_path,
               processing_thread, btn_start_conversion, btn_cancel_conversion,
               progress_bar, dialogs, closed>>

\* ------------------------------------------------------------ output files
\* mutant: a name that is taken is not written over, the file gets another
OutputImagePath_Unique(dir, i, fmt) ==
  IF <<dir, "page_", i + 1, fmt>> \in files
  THEN <<dir, "page_", i + 1, fmt, "(1)">>
  ELSE <<dir, "page_", i + 1, fmt>>

\* mutant: the file is named by the 0-based loop index
OutputImagePath_ZeroBased(dir, i, fmt) == <<dir, "page_", i, fmt>>

\* os.path.join(output_directory, f"page_{i + 1}.{image_format}")
OutputImagePath(dir, i, fmt) == <<dir, "page_", i + 1, fmt>>

\* --------------------------------------------------------------- documents
NoDoc == [state |-> "None", page_count |-> 0]

\* Python truth value of `doc`: None is false; fitz.Document defines
\* __len__ (the page count) and no __bool__, so a document is true iff it
\* has at least one page.
Truthy(d) == d.state # "None" /\ d.page_count # 0

\* ---------------------------------------------------------------- messages
\* An outcome message: which f-string produced it (kind), the numbers it
\* formats (n, errs) and the path or exception text it embeds.
Message(kind, n, errs, text) == [kind |-> kind, n |-> n, errs |-> errs, text |-> text]

NoMessage == Message("", 0, 0, "")

\* "cancelled" in message.lower()
ContainsCancelled(m) ==
  \/ m.kind = "Conversion cancelled by user."
  \/ m.text \in {"docs/cancelled.pdf", "docs/cancelled_images"}

\* ------------------------------------------------------------------ events
PageCountKnown(n) ==
  [type |-> "PageCountKnown", n |-> n, message |-> NoMessage,
   success |-> FALSE, failures |-> <<>>]

ProgressTick(n) ==
  [type |-> "ProgressTick", n |-> n, message |-> NoMessage,
   success |-> FALSE, failures |-> <<>>]

Finished(message, success, failures) ==
  [type |-> "Finished", n |-> 0, message |-> message,
   success |-> success, failures |-> failures]

\* ----------------------------------------------------------------- threads
\* What a run remembers of the run before it, for the properties only: its
\* request, its page count and the pages whose save failed, if that run went
\* through all its pages.  It is remembered as long as the run can repeat
\* the earlier one, that is until its document turns out not to open or to
\* have another number of pages.
NoPrev ==
  [complete |-> FALSE, output_directory |-> "", image_format |-> "",
   total_pages |-> 0, failed |-> {}]

\* pc is the position of run(): "none" before the object exists, "raised"
\* when an exception left run(), "done" when run() has returned.
NoThread ==
  [pc |-> "none", input_pdf_path |-> "", output_directory |-> "",
   image_format |-> "", flag |-> FALSE, doc |-> NoDoc, total_pages |-> 0,
   i |-> 0, converted_count |-> 0, page_save_errors |-> <<>>,
   returning |-> FALSE,
   \* history of the run, read by the properties only
   events |-> <<>>, written |-> {}, failed |-> {}, fault |-> "none",
   live |-> TRUE, closes |-> 0, mkdir |-> FALSE,
   cancelAt |-> "none", cancelTicks |-> 0, prev |-> NoPrev]

\* A thread object of an earlier run, which the shell no longer refers to:
\* what is left of run() only closes the document and returns, and the
\* history of the run is dropped.
Detached(t) ==
  IF t.pc = "none" THEN t
  ELSE [NoThread EXCEPT !.pc = t.pc, !.returning = t.returning, !.live = FALSE]

\* the for loop of the run went through all the pages of its document
Complete(t) ==
  /\ t.doc.state # "None"
  /\ t.total_pages >= 1
  /\ ~t.returning
  /\ t.pc \in {"post", "post2", "ret", "done"}

Summary(t) ==
  IF t.live /\ Complete(t)
  THEN [complete |-> TRUE, output_directory |-> t.output_directory,
        image_format |-> t.image_format, total_pages |-> t.total_pages,
        failed |-> t.failed]
  ELSE NoPrev

\* PdfProcessingThread.__init__
NewThread(input, output, fmt) ==
  [NoThread EXCEPT !.pc = "exists", !.input_pdf_path = input,
                   !.output_directory = output, !.image_format = Lower(fmt)]

\* QThread.isRunning(): from start() until run() has returned
IsRunning(r) == threads[r].pc \notin {"none", "done", "raised"}

Ticks(t) == SelectSeq(t.events, LAMBDA e : e.type = "ProgressTick")

\* where run() is when the flag is set: before the check of the next page
\* ("boundary"), between that check and the page's tick ("page"), or after
\* the loop or a return ("late")
Phase(t) ==
  CASE t.pc \in {"exists", "makedirs", "open", "check"} -> "boundary"
    [] t.pc \in {"render", "save"} -> "page"
    [] OTHER -> "late"

\* run() of thread r is at position pc, in a process that has not exited
At(r, pc) == ~closed /\ threads[r].pc = pc

\* pyqtSignal.emit, as seen by the run's history
Emit(t, e) == [t EXCEPT !.events = Append(@, e)]

\* pyqtSignal.emit, as seen by the GUI thread: a queued call of the slot
Post(r, e) == Append(uiq, [run |-> r, ev |-> e])

\* ------------------------------------------------------------ worker: run()
\* mutant: the missing source is reported but run() does not return
WorkerExists_NoReturn(r) ==
  LET t == threads[r] IN
  /\ At(r, "exists")
  /\ \E exists \in BOOLEAN :
       IF ~exists
       THEN LET e == Finished(Message("Error: Input PDF file not found", 0, 0,
                                      t.input_pdf_path), FALSE, t.page_save_errors)
            IN /\ threads' = [threads EXCEPT ![r] =
                      [Emit(t, e) EXCEPT !.pc = "makedirs", !.fault = "notfound"]]
               /\ uiq' = Post(r, e)
       ELSE /\ threads' = [threads EXCEPT ![r].pc = "makedirs"]
            /\ uiq' = uiq
  /\ UNCHANGED <<files, dirs, shellVars>>

\* run() lines 30-34: the source path must exist
WorkerExists(r) ==
  LET t == threads[r] IN
  /\ At(r, "exists")
  /\ \E exists \in BOOLEAN :
       IF ~exists
       THEN LET e == Finished(Message("Error: Input PDF file not found", 0, 0,
                                      t.input_pdf_path), FALSE, t.page_save_errors)
            IN /\ threads' = [threads EXCEPT ![r] =
                      [Emit(t, e) EXCEPT !.pc = "ret", !.fault = "notfound"]]
               /\ uiq' = Post(r, e)
       ELSE /\ threads' = [threads EXCEPT ![r].pc = "makedirs"]
            /\ uiq' = uiq
  /\ UNCHANGED <<files, dirs, shellVars>>

\* run() lines 36-41: os.makedirs(output_directory, exist_ok=True)
WorkerMakedirs(r) ==
  LET t == threads[r] IN
  /\ At(r, "makedirs")
  /\ \E ok \in BOOLEAN :
       IF ok
       THEN /\ dirs' = dirs \cup ({t.output_directory, Dirname(t.output_directory)} \ {""})
            /\ threads' = [threads EXCEPT ![r] =
                   [t EXCEPT !.pc = "open", !.mkdir = TRUE]]
            /\ uiq' = uiq
       ELSE LET e == Finished(Message("Error creating output directory", 0, 0,
                                      t.output_directory), FALSE, t.page_save_errors)
            IN /\ threads' = [threads EXCEPT ![r] =
                      [Emit(t, e) EXCEPT !.pc = "ret", !.fault = "makedirs"]]
               /\ uiq' = Post(r, e)
               /\ dirs' = dirs
  /\ UNCHANGED <<files, shellVars>>

\* mutant: total_pages_known is emitted before the empty-document check
WorkerOpen_AnnounceFirst(r) ==
  LET t == threads[r] IN
  /\ At(r, "open")
  /\ \E n \in PageCounts :
       LET o == Emit([t EXCEPT !.converted_count = 0,
                               !.doc = [state |-> "open", page_count |-> n],
                               !.total_pages = n], PageCountKnown(n))
           e == Finished(Message("Error: The PDF file is empty or could not be read.",
                                 0, 0, ""), FALSE, t.page_save_errors)
       IN /\ threads' = [threads EXCEPT ![r] =
                 IF n = 0
                 THEN [Emit(o, e) EXCEPT !.pc = "finally", !.returning = TRUE]
                 ELSE [o EXCEPT !.pc = "check", !.i = 0]]
          /\ uiq' = IF n = 0
                    THEN Append(Post(r, PageCountKnown(n)), [run |-> r, ev |-> e])
                    ELSE Post(r, PageCountKnown(n))
  /\ UNCHANGED <<files, dirs, shellVars>>

\* mutant: the empty-document check is missing and the loop is entered
WorkerOpen_NoEmptyCheck(r) ==
  LET t == threads[r] IN
  /\ At(r, "open")
  /\ \/ \E n \in PageCounts :
          LET o == [t EXCEPT !.converted_count = 0,
                             !.doc = [state |-> "open", page_count |-> n],
                             !.total_pages = n]
              e == PageCountKnown(n)
          IN /\ threads' = [threads EXCEPT ![r] =
                    [Emit(o, e) EXCEPT !.pc = "check", !.i = 0]]
             /\ uiq' = Post(r, e)
     \/ LET e == Finished(Message("Error processing PDF with PyMuPDF", 0, 0, "e_pdf"),
                          FALSE, t.page_save_errors)
        IN /\ threads' = [threads EXCEPT ![r] =
                  [Emit(t, e) EXCEPT !.pc = "finally", !.returning = TRUE,
                                     !.fault = "open"]]
           /\ uiq' = Post(r, e)
  /\ UNCHANGED <<files, dirs, shellVars>>

\* run() lines 43-53 and, when fitz.open raises, 83-85
WorkerOpen(r) ==
  LET t == threads[r] IN
  /\ At(r, "open")
  /\ \/ \E n \in PageCounts :
          LET o == [t EXCEPT !.converted_count = 0,
                             !.doc = [state |-> "open", page_count |-> n],
                             !.total_pages = n,
                             !.prev = IF n = t.prev.total_pages THEN @ ELSE NoPrev]
              e == IF n = 0
                   THEN Finished(Message("Error: The PDF file is empty or could not be read.",
                                         0, 0, ""), FALSE, t.page_save_errors)
                   ELSE PageCountKnown(n)
          IN /\ threads' = [threads EXCEPT ![r] =
                    IF n = 0
                    THEN [Emit(o, e) EXCEPT !.pc = "finally", !.returning = TRUE]
                    ELSE [Emit(o, e) EXCEPT !.pc = "check", !.i = 0]]
             /\ uiq' = Post(r, e)
     \/ LET e == Finished(Message("Error processing PDF with PyMuPDF", 0, 0, "e_pdf"),
                          FALSE, t.page_save_errors)
        IN /\ threads' = [threads EXCEPT ![r] =
                  [Emit(t, e) EXCEPT !.pc = "finally", !.returning = TRUE,
                                     !.fault = "open", !.prev = NoPrev]]
           /\ uiq' = Post(r, e)
  /\ UNCHANGED <<files, dirs, shellVars>>

\* mutant: the cancellation outcome is emitted but the loop is not left
WorkerCheck_NoReturn(r) ==
  LET t == threads[r] IN
  /\ At(r, "check")
  /\ IF t.i < t.total_pages
     THEN IF t.flag
          THEN LET e == Finished(Message("Conversion cancelled by user.", 0, 0, ""),
                                 FALSE, t.page_save_errors)
               IN /\ threads' = [threads EXCEPT ![r] =
                         [Emit(t, e) EXCEPT !.pc = "render"]]
                  /\ uiq' = Post(r, e)
          ELSE /\ threads' = [threads EXCEPT ![r].pc = "render"]
               /\ uiq' = uiq
     ELSE /\ threads' = [threads EXCEPT ![r] =
                 [t EXCEPT !.pc = "finally", !.returning = FALSE]]
          /\ uiq' = uiq
  /\ UNCHANGED <<files, dirs, shellVars>>

\* mutant: the loop never looks at the flag
WorkerCheck_IgnoreFlag(r) ==
  LET t == threads[r] IN
  /\ At(r, "check")
  /\ threads' = [threads EXCEPT ![r] =
         IF t.i < t.total_pages
         THEN [t EXCEPT !.pc = "render"]
         ELSE [t EXCEPT !.pc = "finally", !.returning = FALSE]]
  /\ UNCHANGED <<files, dirs, uiq, shellVars>>

\* mutant: a cancelled run that saved a page reports success
WorkerCheck_PartialSuccess(r) ==
  LET t == threads[r] IN
  /\ At(r, "check")
  /\ IF t.i < t.total_pages
     THEN IF t.flag
          THEN LET e == Finished(Message("Conversion cancelled by user.", 0, 0, ""),
                                 t.converted_count > 0, t.page_save_errors)
               IN /\ threads' = [threads EXCEPT ![r] =
                         [Emit(t, e) EXCEPT !.pc = "finally", !.returning = TRUE]]
                  /\ uiq' = Post(r, e)
          ELSE /\ threads' = [threads EXCEPT ![r].pc = "render"]
               /\ uiq' = uiq
     ELSE /\ threads' = [threads EXCEPT ![r] =
                 [t EXCEPT !.pc = "finally", !.returning = FALSE]]
          /\ uiq' = uiq
  /\ UNCHANGED <<files, dirs, shellVars>>

\* run() lines 55-58: the loop condition and the cancellation check
WorkerCheck(r) ==
  LET t == threads[r] IN
  /\ At(r, "check")
  /\ IF t.i < t.total_pages
     THEN IF t.flag
          THEN LET e == Finished(Message("Conversion cancelled by user.", 0, 0, ""),
                                 FALSE, t.page_save_errors)
               IN /\ threads' = [threads EXCEPT ![r] =
                         [Emit(t, e) EXCEPT !.pc = "finally", !.returning = TRUE]]
                  /\ uiq' = Post(r, e)
          ELSE /\ threads' = [threads EXCEPT ![r].pc = "render"]
               /\ uiq' = uiq
     ELSE /\ threads' = [threads EXCEPT ![r] =
                 [t EXCEPT !.pc = "finally", !.returning = FALSE]]
          /\ uiq' = uiq
  /\ UNCHANGED <<files, dirs, shellVars>>

\* mutant: a render failure is treated like a save failure of that page
WorkerRender_SkipPage(r) ==
  LET t == threads[r]
      e == ProgressTick(t.i + 1)
  IN /\ At(r, "render")
     /\ \E ok \in BOOLEAN :
          IF ok
          THEN /\ threads' = [threads EXCEPT ![r].pc = "save"]
               /\ uiq' = uiq
          ELSE /\ threads' = [threads EXCEPT ![r] =
                      [Emit(t, e) EXCEPT !.pc = "check", !.i = @ + 1,
                                         !.page_save_errors = Append(@, t.i + 1),
                                         !.failed = @ \cup {t.i + 1},
                                         !.fault = "render"]]
               /\ uiq' = Post(r, e)
     /\ UNCHANGED <<files, dirs, shellVars>>

\* run() lines 60-69 and, when the page cannot be rendered, 83-85
WorkerRender(r) ==
  LET t == threads[r] IN
  /\ At(r, "render")
  /\ \E ok \in BOOLEAN :
       IF ok
       THEN /\ threads' = [threads EXCEPT ![r].pc = "save"]
            /\ uiq' = uiq
       ELSE LET e == Finished(Message("Error processing PDF with PyMuPDF", 0, 0, "e_pdf"),
                              FALSE, t.page_save_errors)
            IN /\ threads' = [threads EXCEPT ![r] =
                      [Emit(t, e) EXCEPT !.pc = "finally", !.returning = TRUE,
                                         !.fault = "render"]]
               /\ uiq' = Post(r, e)
  /\ UNCHANGED <<files, dirs, shellVars>>

\* mutant: a failed save ends the run with a failure outcome
WorkerSave_AbortOnFailure(r) ==
  LET t == threads[r]
      e == ProgressTick(t.i + 1)
      f == Finished(Message("Error processing PDF with PyMuPDF", 0, 0, "e_save"),
                    FALSE, Append(t.page_save_errors, t.i + 1))
  IN /\ At(r, "save")
     /\ \E ok \in BOOLEAN :
          IF ok
          THEN /\ files' = files \cup {OutputImagePath(t.output_directory, t.i, t.image_format)}
               /\ threads' = [threads EXCEPT ![r] =
                      [Emit(t, e) EXCEPT !.pc = "check", !.i = @ + 1,
                                         !.converted_count = @ + 1,
                                         !.written = @ \cup
                                             {OutputImagePath(t.output_directory, t.i,
                                                              t.image_format)}]]
               /\ uiq' = Post(r, e)
          ELSE /\ files' = files
               /\ threads' = [threads EXCEPT ![r] =
                      [Emit(t, f) EXCEPT !.pc = "finally", !.returning = TRUE,
                                         !.page_save_errors = Append(@, t.i + 1),
                                         !.failed = @ \cup {t.i + 1}]]
               /\ uiq' = Post(r, f)
     /\ UNCHANGED <<dirs, shellVars>>

\* mutant: the progress signal is emitted only after a successful save
WorkerSave_NoTickOnFailure(r) ==
  LET t == threads[r]
      e == ProgressTick(t.i + 1)
  IN /\ At(r, "save")
     /\ \E ok \in BOOLEAN :
          IF ok
          THEN /\ files' = files \cup {OutputImagePath(t.output_directory, t.i, t.image_format)}
               /\ threads' = [threads EXCEPT ![r] =
                      [Emit(t, e) EXCEPT !.pc = "check", !.i = @ + 1,
                                         !.converted_count = @ + 1,
                                         !.written = @ \cup
                                             {OutputImagePath(t.output_directory, t.i,
                                                              t.image_format)}]]
               /\ uiq' = Post(r, e)
          ELSE /\ files' = files
               /\ threads' = [threads EXCEPT ![r] =
                      [t EXCEPT !.pc = "check", !.i = @ + 1,
                                !.page_save_errors = Append(@, t.i + 1),
                                !.failed = @ \cup {t.i + 1}]]
               /\ uiq' = uiq
     /\ UNCHANGED <<dirs, shellVars>>

\* mutant: a page whose save failed is tried once more
WorkerSave_RetryOnce(r) ==
  LET t == threads[r]
      e == ProgressTick(t.i + 1)
  IN /\ At(r, "save")
     /\ \E ok \in BOOLEAN :
          IF ok
          THEN /\ files' = files \cup {OutputImagePath(t.output_directory, t.i, t.image_format)}
               /\ threads' = [threads EXCEPT ![r] =
                      [Emit(t, e) EXCEPT !.pc = "check", !.i = @ + 1,
                                         !.converted_count = @ + 1,
                                         !.written = @ \cup
                                             {OutputImagePath(t.output_directory, t.i,
                                                              t.image_format)}]]
               /\ uiq' = Post(r, e)
          ELSE /\ files' = files
               /\ threads' = [threads EXCEPT ![r] =
                      IF (t.i + 1) \in t.failed
                      THEN [Emit(t, e) EXCEPT !.pc = "check", !.i = @ + 1,
                                              !.page_save_errors = Append(@, t.i + 1)]
                      ELSE [t EXCEPT !.pc = "render",
                                     !.page_save_errors = Append(@, t.i + 1),
                                     !.failed = @ \cup {t.i + 1}]]
               /\ uiq' = IF (t.i + 1) \in t.failed THEN Post(r, e) ELSE uiq
     /\ UNCHANGED <<dirs, shellVars>>

\* run() lines 71-81: save the page, or record the failure and go on; then
\* the progress signal and the loop's increment
WorkerSave(r) ==
  LET t == threads[r]
      e == ProgressTick(t.i + 1)
  IN /\ At(r, "save")
     /\ \E ok \in BOOLEAN :
          IF ok
          THEN /\ files' = files \cup {OutputImagePath(t.output_directory, t.i, t.image_format)}
               /\ threads' = [threads EXCEPT ![r] =
                      [Emit(t, e) EXCEPT !.pc = "check", !.i = @ + 1,
                                         !.converted_count = @ + 1,
                                         !.written = @ \cup
                                             {OutputImagePath(t.output_directory, t.i,
                                                              t.image_format)}]]
          ELSE /\ files' = files
               /\ threads' = [threads EXCEPT ![r] =
                      [Emit(t, e) EXCEPT !.pc = "check", !.i = @ + 1,
                                         !.page_save_errors = Append(@, t.i + 1),
                                         !.failed = @ \cup {t.i + 1}]]
     /\ uiq' = Post(r, e)
     /\ UNCHANGED <<dirs, shellVars>>

\* run() lines 86-88: finally, and then the pending return if there is one
WorkerFinally(r) ==
  LET t == threads[r] IN
  /\ At(r, "finally")
  /\ threads' = [threads EXCEPT ![r] =
         [t EXCEPT !.pc = IF t.returning THEN "done" ELSE "post",
                   !.doc = IF Truthy(t.doc) THEN [@ EXCEPT !.state = "closed"] ELSE @,
                   !.closes = IF Truthy(t.doc) THEN @ + 1 ELSE @]]
  /\ UNCHANGED <<files, dirs, uiq, shellVars>>

\* mutant: the success branch is taken whenever the loop was exhausted
WorkerPost_AlwaysSuccess(r) ==
  LET t == threads[r]
      e == Finished(Message("Successfully converted", t.converted_count,
                            Len(t.page_save_errors), t.output_directory),
                    TRUE, t.page_save_errors)
  IN /\ At(r, "post")
     /\ threads' = [threads EXCEPT ![r] = [Emit(t, e) EXCEPT !.pc = "ret"]]
     /\ uiq' = Post(r, e)
     /\ UNCHANGED <<files, dirs, shellVars>>

\* run() lines 90-100: the outcome after the loop
WorkerPost(r) ==
  LET t == threads[r] IN
  /\ At(r, "post")
  /\ IF t.converted_count > 0
     THEN LET e == Finished(Message("Successfully converted", t.converted_count,
                                    Len(t.page_save_errors), t.output_directory),
                            TRUE, t.page_save_errors)
          IN /\ threads' = [threads EXCEPT ![r] = [Emit(t, e) EXCEPT !.pc = "ret"]]
             /\ uiq' = Post(r, e)
     ELSE IF t.total_pages > 0 /\ ~t.flag
     THEN LET e == Finished(Message("No pages were successfully converted.", 0,
                                    Len(t.page_save_errors), ""),
                            FALSE, t.page_save_errors)
          IN /\ threads' = [threads EXCEPT ![r] = [Emit(t, e) EXCEPT !.pc = "ret"]]
             /\ uiq' = Post(r, e)
     ELSE /\ threads' = [threads EXCEPT ![r].pc = "post2"]
          /\ uiq' = uiq
  /\ UNCHANGED <<files, dirs, shellVars>>

\* run() lines 101-102: the last elif
WorkerPost2(r) ==
  LET t == threads[r] IN
  /\ At(r, "post2")
  /\ IF ~t.flag
     THEN LET e == Finished(Message("No pages were processed or an error occurred.",
                                    0, 0, ""), FALSE, t.page_save_errors)
          IN /\ threads' = [threads EXCEPT ![r] = [Emit(t, e) EXCEPT !.pc = "ret"]]
             /\ uiq' = Post(r, e)
     ELSE /\ threads' = [threads EXCEPT ![r].pc = "ret"]
          /\ uiq' = uiq
  /\ UNCHANGED <<files, dirs, shellVars>>

\* run() returns and the QThread finishes
WorkerReturn(r) ==
  /\ At(r, "ret")
  /\ threads' = [threads EXCEPT ![r].pc = "done"]
  /\ UNCHANGED <<files, dirs, uiq, shellVars>>

WorkerStep(r) ==
  \/ WorkerExists(r)
  \/ WorkerMakedirs(r)
  \/ WorkerOpen(r)
  \/ WorkerCheck(r)
  \/ WorkerRender(r)
  \/ WorkerSave(r)
  \/ WorkerFinally(r)
  \/ WorkerPost(r)
  \/ WorkerPost2(r)
  \/ WorkerReturn(r)

\* ------------------------------------------------------- Qt widget helpers
\* QProgressBar.setValue: ignored when out of range, unless the range is 0..0
SetValue(pb, v) ==
  IF v = pb.value \/ ((v > pb.maximum \/ v < 0) /\ pb.maximum # 0)
  THEN pb
  ELSE [pb EXCEPT !.value = v]

\* QProgressBar.setMaximum: a value left above the new maximum is reset to -1
SetMaximum(pb, m) ==
  [pb EXCEPT !.maximum = m, !.value = IF @ > m THEN -1 ELSE @]

SetFormat(pb, f) == [pb EXCEPT !.format = f]

\* a QMessageBox shown to the user
Box(icon, title, message, lines, more) ==
  [icon |-> icon, title |-> title, message |-> message, lines |-> lines, more |-> more]

\* page_save_errors[:5]
FirstFive(errs) == SubSeq(errs, 1, IF Len(errs) > 5 THEN 5 ELSE Len(errs))

\* mutant: a second request takes the first one back
request_interruption_sync_Toggle(t) ==
  [t EXCEPT !.flag = ~t.flag,
            !.cancelAt = IF t.flag THEN @ ELSE Phase(t),
            !.cancelTicks = IF t.flag THEN @ ELSE Len(Ticks(t))]

\* PdfProcessingThread.request_interruption_sync
request_interruption_sync(t) ==
  [t EXCEPT !.flag = TRUE,
            !.cancelAt = IF t.flag THEN @ ELSE Phase(t),
            !.cancelTicks = IF t.flag THEN @ ELSE Len(Ticks(t))]

\* the run id the next PdfProcessingThread object gets
NextRun == CHOOSE r \in Runs : threads[r].pc = "none" /\ \A q \in Runs : q < r => threads[q].pc # "none"

\* --------------------------------------------------------- shell: handlers
UserCanAct == ~closed

select_input_pdf_dialog ==
  /\ UserCanAct
  /\ \E file_name \in InputPaths \cup {""} :
       IF file_name # ""
       THEN /\ input_pdf_path' = file_name
            /\ output_directory_path' =
                 IF output_directory_path = "" THEN SuggestedDir(file_name)
                 ELSE output_directory_path
       ELSE UNCHANGED <<input_pdf_path, output_directory_path>>
  /\ UNCHANGED <<threads, files, dirs, uiq, processing_thread,
                 btn_start_conversion, btn_cancel_conversion, progress_bar,
                 dialogs, closed>>

select_output_folder_dialog ==
  /\ UserCanAct
  /\ \E dir_name \in UserDirs \cup {""} :
       IF dir_name # ""
       THEN /\ output_directory_path' = dir_name
            /\ dirs' = dirs \cup {dir_name}
       ELSE UNCHANGED <<output_directory_path, dirs>>
  /\ UNCHANGED <<threads, files, uiq, input_pdf_path,
                 processing_thread, btn_start_conversion, btn_cancel_conversion,
                 progress_bar, dialogs, closed>>

start_conversion_process ==
  /\ UserCanAct
  /\ btn_start_conversion
  /\ IF input_pdf_path = ""
     THEN /\ dialogs' = <<Box("warning", "Input Missing", NoMessage, <<>>, 0)>>
          /\ UNCHANGED <<threads, processing_thread, btn_start_conversion,
                         btn_cancel_conversion, progress_bar>>
     ELSE IF output_directory_path = ""
     THEN /\ dialogs' = <<Box("warning", "Output Missing", NoMessage, <<>>, 0)>>
          /\ UNCHANGED <<threads, processing_thread, btn_start_conversion,
                         btn_cancel_conversion, progress_bar>>
     ELSE /\ \E r \in Runs : threads[r].pc = "none"
          /\ btn_start_conversion' = FALSE
          /\ btn_cancel_conversion' = TRUE
          /\ progress_bar' = SetFormat(SetMaximum(SetValue(progress_bar, 0), 0),
                                       <<"Processing...", 0>>)
          /\ threads' = [q \in Runs |->
                 IF q = NextRun
                 THEN [NewThread(input_pdf_path, output_directory_path, ComboCurrentText)
                         EXCEPT !.prev = IF q = 1 THEN NoPrev ELSE Summary(threads[q - 1])]
                 ELSE Detached(threads[q])]
          /\ processing_thread' = NextRun
          /\ dialogs' = <<>>
  /\ UNCHANGED <<files, dirs, uiq, input_pdf_path, output_directory_path,
                 closed>>

cancel_conversion_process ==
  /\ UserCanAct
  /\ btn_cancel_conversion
  /\ IF processing_thread # 0 /\ IsRunning(processing_thread)
     THEN /\ threads' = [threads EXCEPT ![processing_thread] =
                 request_interruption_sync(@)]
          /\ btn_cancel_conversion' = FALSE
     ELSE UNCHANGED <<threads, btn_cancel_conversion>>
  /\ UNCHANGED <<files, dirs, uiq, input_pdf_path, output_directory_path,
                 processing_thread, btn_start_conversion,
                 progress_bar, dialogs, closed>>

\* The window accepted its close event: app.exec() returns and the process
\* exits (line 320).  The widgets and the queued signals go with it; what
\* stays is the disk and, for the properties, the state run() was left in.
Exit ==
  /\ closed' = TRUE
  /\ uiq' = <<>>
  /\ input_pdf_path' = ""
  /\ output_directory_path' = ""
  /\ processing_thread' = 0
  /\ btn_start_conversion' = FALSE
  /\ btn_cancel_conversion' = FALSE
  /\ progress_bar' = [value |-> 0, maximum |-> 100, format |-> <<"%p%", 0>>]
  /\ dialogs' = <<>>

\* closeEvent (lines 299-312); the reply is the user's answer to the question
closeEvent ==
  /\ UserCanAct
  /\ IF processing_thread # 0 /\ IsRunning(processing_thread)
     THEN \E reply \in {"Yes", "No"} :
            IF reply = "Yes"
            THEN /\ threads' = [threads EXCEPT ![processing_thread] =
                        request_interruption_sync(@)]
                 /\ Exit
            ELSE UNCHANGED <<threads, shellVars, uiq>>
     ELSE /\ threads' = threads
          /\ Exit
  /\ UNCHANGED <<files, dirs>>

\* ----------------------------------------------------------- shell: slots
\* The GUI thread's event loop takes the oldest queued signal and calls the
\* slot connected to it (lines 252-254).
Delivered(type) ==
  /\ ~closed
  /\ uiq # <<>>
  /\ Head(uiq).ev.type = type
  /\ uiq' = Tail(uiq)

set_progress_bar_max ==
  /\ Delivered("PageCountKnown")
  /\ LET total_pages == Head(uiq).ev.n IN
       progress_bar' =
         IF total_pages > 0
         THEN SetFormat(SetMaximum(progress_bar, total_pages), <<"%v / n pages (%p%)", total_pages>>)
         ELSE SetFormat(SetMaximum(progress_bar, 1), <<"No pages to process.", 0>>)
  /\ UNCHANGED <<threads, files, dirs, input_pdf_path, output_directory_path,
                 processing_thread, btn_start_conversion,
                 btn_cancel_conversion, dialogs, closed>>

update_progress_bar ==
  /\ Delivered("ProgressTick")
  /\ progress_bar' = SetValue(progress_bar, Head(uiq).ev.n)
  /\ UNCHANGED <<threads, files, dirs, input_pdf_path, output_directory_path,
                 processing_thread, btn_start_conversion,
                 btn_cancel_conversion, dialogs, closed>>

on_conversion_finished ==
  /\ Delivered("Finished")
  /\ LET message == Head(uiq).ev.message
         success == Head(uiq).ev.success
         page_save_errors == Head(uiq).ev.failures
     IN /\ btn_start_conversion' = TRUE
        /\ btn_cancel_conversion' = FALSE
        /\ progress_bar' =
             IF success /\ progress_bar.value = progress_bar.maximum
                        /\ progress_bar.maximum > 0
             THEN SetFormat(progress_bar, <<"Completed!", 0>>)
             ELSE IF ~success /\ ContainsCancelled(message)
             THEN SetFormat(progress_bar, <<"Cancelled", 0>>)
             ELSE SetFormat(progress_bar, <<"Finished with issues or no pages", 0>>)
        /\ dialogs' =
             (IF page_save_errors # <<>>
              THEN <<Box("warning", "Page Saving Errors", NoMessage,
                         FirstFive(page_save_errors),
                         IF Len(page_save_errors) > 5 THEN Len(page_save_errors) - 5 ELSE 0)>>
              ELSE <<>>)
             \o
             (IF success
              THEN <<Box("information", "Conversion Status", message, <<>>, 0)>>
              ELSE IF ~ContainsCancelled(message)
              THEN <<Box("critical", "Conversion Error", message, <<>>, 0)>>
              ELSE <<>>)
        /\ processing_thread' = 0
  /\ UNCHANGED <<threads, files, dirs, input_pdf_path, output_directory_path,
                 closed>>

\* ------------------------------------------------------------ specification
Init ==
  /\ threads = [r \in Runs |-> NoThread]
  /\ files = {}
  /\ dirs = {"docs"}
  /\ uiq = <<>>
  /\ input_pdf_path = ""
  /\ output_directory_path = ""
  /\ processing_thread = 0
  /\ btn_start_conversion = TRUE
  /\ btn_cancel_conversion = FALSE
  /\ progress_bar = [value |-> 0, maximum |-> 100, format |-> <<"%p%", 0>>]
  /\ dialogs = <<>>
  /\ closed = FALSE

Next ==
  \/ \E r \in Runs : WorkerExists(r)
  \/ \E r \in Runs : WorkerMakedirs(r)
  \/ \E r \in Runs : WorkerOpen(r)
  \/ \E r \in Runs : WorkerCheck(r)
  \/ \E r \in Runs : WorkerRender(r)
  \/ \E r \in Runs : WorkerSave(r)
  \/ \E r \in Runs : WorkerFinally(r)
  \/ \E r \in Runs : WorkerPost(r)
  \/ \E r \in Runs : WorkerPost2(r)
  \/ \E r \in Runs : WorkerReturn(r)
  \/ select_input_pdf_dialog
  \/ select_output_folder_dialog
  \/ start_conversion_process
  \/ cancel_conversion_process
  \/ closeEvent
  \/ set_progress_bar_max
  \/ update_progress_bar
  \/ on_conversion_finished

Spec == Init /\ [][Next]_vars

\* The started QThread is scheduled until run() returns, and the GUI thread's
\* event loop (app.exec(), line 320) handles every signal queued for it.  The
\* user's actions are under no such obligation.
Deliver == set_progress_bar_max \/ update_progress_bar \/ on_conversion_finished

LiveSpec ==
  /\ Spec
  /\ WF_vars(\E r \in Runs : WorkerStep(r))
  /\ WF_vars(Deliver)

\* ------------------------------------------------- vocabulary of the claims
\* the runs whose history is kept
LiveRuns == {r \in Runs : threads[r].live /\ threads[r].pc # "none"}

\* the runs that have returned from run()
EndedRuns == {r \in LiveRuns : threads[r].pc = "done"}

\* the runs whose document opened with at least one page
OpenedRuns == {r \in LiveRuns : threads[r].doc.state # "None" /\ threads[r].total_pages >= 1}

FinishedCount(t) == Len(SelectSeq(t.events, LAMBDA e : e.type = "Finished"))

HasOutcome(t) == t.events # <<>> /\ t.events[Len(t.events)].type = "Finished"

Outcome(t) == t.events[Len(t.events)]

\* the number of pages whose save was attempted
Attempted(t) == Cardinality(t.written) + Cardinality(t.failed)

\* the file the spec names for page n of the run
PageFile(t, n) == <<t.output_directory, "page_", n, t.image_format>>

\* s lists exactly the members of S, in ascending order
IsAscendingListOf(s, S) ==
  /\ Len(s) = Cardinality(S)
  /\ {s[k] : k \in 1..Len(s)} = S
  /\ \A k \in 1..Len(s) - 1 : s[k] < s[k + 1]

\* ------------------------------------------------------------------ claims
\* C1: every started run emits a Finished event, on every path and for a
\* flag set at any moment.  Stated on the runs that have returned: a run
\* that has returned from run() has emitted Finished.
C1_ReturnedRunHasFinished ==
  \A r \in EndedRuns : FinishedCount(threads[r]) >= 1

\* C2: in every run at most one Finished event is emitted and it is the last
\* event of the run: no event of any kind follows a Finished.
C2_FinishedIsLastAndOnce ==
  \A r \in LiveRuns :
    /\ FinishedCount(threads[r]) <= 1
    /\ \A k \in 1..Len(threads[r].events) :
         threads[r].events[k].type = "Finished" => k = Len(threads[r].events)

\* a run with progress ticks that was cancelled and ended with its outcome
C2_Witness ==
  \E r \in EndedRuns :
    /\ threads[r].flag
    /\ Len(Ticks(threads[r])) >= 1
    /\ HasOutcome(threads[r])

\* what C3 promises of a run: the cancellation outcome with the failures
\* accumulated so far, and no tick beyond k
CancelledAfter(t, k) ==
  /\ HasOutcome(t)
  /\ Outcome(t).success = FALSE
  /\ Outcome(t).message.kind = "Conversion cancelled by user."
  /\ Outcome(t).failures = t.page_save_errors
  /\ IsAscendingListOf(Outcome(t).failures, t.failed)
  /\ \A j \in 1..Len(Ticks(t)) : Ticks(t)[j].n <= k

\* C3 as stated: the flag set once ProgressTick(k) has been emitted (k < P),
\* while the loop is still running, yields the cancellation outcome and no
\* tick beyond k.
C3_CancelAfterK ==
  \A r \in EndedRuns \cap OpenedRuns :
    (threads[r].flag /\ threads[r].cancelAt # "late"
                     /\ threads[r].cancelTicks < threads[r].total_pages)
      => CancelledAfter(threads[r], threads[r].cancelTicks)

\* C3 amended: the flag set at a page-iteration boundary - after
\* ProgressTick(k) and before the loop's cancellation check for page k+1 -
\* yields the cancellation outcome and no tick beyond k; and from the moment
\* the flag is set there no tick beyond k is emitted.
C3_CancelAtBoundary ==
  \A r \in OpenedRuns :
    (threads[r].flag /\ threads[r].cancelAt = "boundary"
                     /\ threads[r].cancelTicks < threads[r].total_pages)
      => /\ \A j \in 1..Len(Ticks(threads[r])) :
              Ticks(threads[r])[j].n <= threads[r].cancelTicks
         /\ r \in EndedRuns => CancelledAfter(threads[r], threads[r].cancelTicks)

\* a two-page run cancelled at the boundary after page 1, whose save failed
C3_Witness ==
  \E r \in EndedRuns \cap OpenedRuns :
    /\ threads[r].flag
    /\ threads[r].cancelAt = "boundary"
    /\ threads[r].cancelTicks = 1
    /\ threads[r].total_pages = 2
    /\ threads[r].failed = {1}
    /\ CancelledAfter(threads[r], 1)

\* the run went through without a render failure, a cancellation request or
\* a failed precondition, and has returned
CleanRuns ==
  {r \in EndedRuns \cap OpenedRuns : threads[r].fault = "none" /\ ~threads[r].flag}

\* C4: a run over P >= 1 pages with no render failure, no save failure and
\* no cancellation writes exactly page_1.<ext> .. page_P.<ext> into the
\* destination directory and ends with success = true and no failures.
C4_FullRun ==
  \A r \in CleanRuns :
    threads[r].failed = {}
      => /\ threads[r].written =
              {PageFile(threads[r], n) : n \in 1..threads[r].total_pages}
         /\ threads[r].written \subseteq files
         /\ threads[r].image_format = "png"
         /\ HasOutcome(threads[r])
         /\ Outcome(threads[r]).success = TRUE
         /\ Outcome(threads[r]).failures = <<>>

\* a clean two-page run that saved both pages
C4_Witness ==
  \E r \in CleanRuns :
    /\ threads[r].failed = {}
    /\ threads[r].total_pages = 2
    /\ Cardinality(threads[r].written) = 2
    /\ Outcome(threads[r]).success = TRUE

\* C5: when the pages of a set F (not empty, not all pages) fail to save and
\* nothing else goes wrong, all P pages are attempted, the outcome has
\* success = true, the failure list is F in ascending order, one entry per
\* page, and the files written are those of the pages outside F.
C5_SaveFailureNotFatal ==
  \A r \in CleanRuns :
    LET t == threads[r] IN
    (t.failed # {} /\ t.failed # 1..t.total_pages)
      => /\ Len(Ticks(t)) = t.total_pages
         /\ Attempted(t) = t.total_pages
         /\ HasOutcome(t)
         /\ Outcome(t).success = TRUE
         /\ IsAscendingListOf(Outcome(t).failures, t.failed)
         /\ t.written = {PageFile(t, n) : n \in (1..t.total_pages) \ t.failed}
         /\ t.written \subseteq files

\* a two-page run whose first page failed to save and whose second was saved
C5_Witness ==
  \E r \in CleanRuns :
    /\ threads[r].total_pages = 2
    /\ threads[r].failed = {1}
    /\ threads[r].written = {PageFile(threads[r], 2)}
    /\ Outcome(threads[r]).success = TRUE

\* C6: the document handle is released exactly once on every exit path of a
\* run that opened it: a returned run that opened the document has closed it
\* once, and no run closes it twice.
C6_ReleasedExactlyOnce ==
  /\ \A r \in LiveRuns : threads[r].closes <= 1
  /\ \A r \in EndedRuns :
       threads[r].doc.state # "None"
         => threads[r].closes = 1 /\ threads[r].doc.state = "closed"

\* C7: the ticks of a run are 1, 2, .., k without gap or repeat, one per
\* attempted page; k = P when the loop is exhausted and k < P when the run
\* ends by cancellation or by a fatal error.
C7_TickSequence ==
  \A r \in LiveRuns :
    LET t == threads[r] IN
    /\ \A j \in 1..Len(Ticks(t)) : Ticks(t)[j].n = j
    /\ Len(Ticks(t)) = Attempted(t)
    /\ t.pc \in {"post", "post2", "ret"} => Len(Ticks(t)) = t.total_pages
    /\ (r \in EndedRuns /\ ~t.returning) => Len(Ticks(t)) = t.total_pages
    /\ (r \in EndedRuns /\ t.returning /\ r \in OpenedRuns)
         => Len(Ticks(t)) < t.total_pages

\* a run that ticked 1, 2 over one saved and one failed page
C7_Witness ==
  \E r \in EndedRuns :
    /\ Len(Ticks(threads[r])) = 2
    /\ threads[r].failed # {}
    /\ threads[r].written # {}

\* C8: when the document opens with P >= 1 pages, PageCountKnown is emitted
\* exactly once, carries P and precedes every ProgressTick; when a
\* precondition fails (missing source, directory not created, document
\* unopenable or empty) it is never emitted.
C8_PageCountKnown ==
  \A r \in LiveRuns :
    LET t == threads[r]
        known == {k \in 1..Len(t.events) : t.events[k].type = "PageCountKnown"}
        ticks == {k \in 1..Len(t.events) : t.events[k].type = "ProgressTick"}
    IN /\ r \in OpenedRuns
            => /\ Cardinality(known) = 1
               /\ \A k \in known : t.events[k].n = t.doc.page_count
               /\ \A k \in known : \A j \in ticks : k < j
       /\ r \notin OpenedRuns => known = {} /\ ticks = {}

\* a run that announced two pages and then ticked twice
C8_Witness ==
  \E r \in EndedRuns \cap OpenedRuns :
    /\ threads[r].doc.page_count = 2
    /\ threads[r].events[1] = PageCountKnown(2)
    /\ Len(Ticks(threads[r])) = 2

\* C9: a render failure is fatal: no further page is attempted and no further
\* tick is emitted, the files already saved remain, exactly one Finished with
\* success = false carries the failures accumulated before the error, and
\* no exception leaves run().
C9_RenderFailureFatal ==
  \A r \in LiveRuns :
    LET t == threads[r] IN
    t.fault = "render"
      => /\ t.pc \in {"finally", "done"}
         /\ Attempted(t) = t.i
         /\ Len(Ticks(t)) = t.i
         /\ t.written \subseteq files
         /\ FinishedCount(t) = 1
         /\ HasOutcome(t)
         /\ Outcome(t).success = FALSE
         /\ Outcome(t).message.kind = "Error processing PDF with PyMuPDF"
         /\ IsAscendingListOf(Outcome(t).failures, t.failed)

\* a render failure on page 2 after page 1 was saved
C9_Witness ==
  \E r \in EndedRuns :
    /\ threads[r].fault = "render"
    /\ threads[r].i = 1
    /\ threads[r].written = {PageFile(threads[r], 1)}

\* C10: when the loop is exhausted without cancellation and every one of the
\* P >= 1 pages failed to save, the outcome is success = false with the "no
\* pages converted" summary and a failure list of exactly P entries.
C10_AllPagesFailed ==
  \A r \in CleanRuns :
    LET t == threads[r] IN
    t.failed = 1..t.total_pages
      => /\ HasOutcome(t)
         /\ Outcome(t).success = FALSE
         /\ Outcome(t).message.kind = "No pages were successfully converted."
         /\ Outcome(t).message.errs = t.total_pages
         /\ Len(Outcome(t).failures) = t.total_pages
         /\ IsAscendingListOf(Outcome(t).failures, 1..t.total_pages)

\* a two-page run in which both saves failed
C10_Witness ==
  \E r \in CleanRuns :
    /\ threads[r].total_pages = 2
    /\ threads[r].failed = {1, 2}
    /\ Outcome(threads[r]).success = FALSE

\* the loop of the run was left by exhaustion: every iteration's check found
\* the flag unset
LoopExhausted(t) == Complete(t)

\* first half of C11: a flag set while page k+1 is being rendered or saved
\* does not interrupt that page: unless its render fails, once run() has left
\* the page its save was attempted and ProgressTick(k+1) was emitted
C11_PageCompletes ==
  \A r \in LiveRuns :
    LET t == threads[r] IN
    (t.flag /\ t.cancelAt = "page" /\ t.fault # "render" /\ t.pc \notin {"render", "save"})
      => /\ Len(Ticks(t)) >= t.cancelTicks + 1
         /\ Ticks(t)[t.cancelTicks + 1].n = t.cancelTicks + 1
         /\ Attempted(t) >= t.cancelTicks + 1

\* second half of C11: the flag acts only through the check at the top of
\* the loop, so a run whose loop was exhausted ends as if the flag had never
\* been set: with the success outcome when a page was saved and with the "no
\* pages converted" outcome otherwise
C11_FlagOnlyAtLoopCheck ==
  \A r \in LiveRuns :
    LET t == threads[r] IN
    (LoopExhausted(t) /\ t.pc \in {"ret", "done"})
      => /\ HasOutcome(t)
         /\ Outcome(t).message.kind =
              IF t.converted_count > 0 THEN "Successfully converted"
              ELSE "No pages were successfully converted."

\* C11: cancellation is cooperative and takes effect only at a page-iteration
\* boundary: a flag set while a page is in progress lets that page's save
\* attempt and its tick complete, and the worker's behaviour depends on the
\* flag only through the once-per-iteration check at the top of the loop.
C11_CooperativeCancel ==
  /\ C11_PageCompletes
  /\ C11_FlagOnlyAtLoopCheck

\* the thread objects whose run() has started and has not returned
ActiveRuns == {r \in Runs : IsRunning(r)}

\* C12: at most one worker run is active at any time: no thread is started
\* while an earlier one is still executing run(), the stretch between its
\* emit of Finished and the end of its cleanup included.
C12_AtMostOneActive == Cardinality(ActiveRuns) <= 1

\* C13: a source path that does not exist yields exactly one Finished with
\* success = false and an empty failure list and nothing else: no
\* PageCountKnown, no ProgressTick, no page attempted, the destination
\* directory not created and the document never opened.
C13_MissingSource ==
  \A r \in LiveRuns :
    LET t == threads[r] IN
    t.fault = "notfound"
      => /\ Len(t.events) = 1
         /\ t.events[1].type = "Finished"
         /\ t.events[1].success = FALSE
         /\ t.events[1].failures = <<>>
         /\ t.events[1].message.kind = "Error: Input PDF file not found"
         /\ t.events[1].message.text = t.input_pdf_path
         /\ Attempted(t) = 0
         /\ ~t.mkdir
         /\ t.doc = NoDoc
         /\ t.closes = 0
         /\ t.pc \in {"ret", "done"}

\* a run that found no source file and returned, with the destination
\* directory still absent from the disk
C13_Witness ==
  \E r \in EndedRuns :
    /\ threads[r].fault = "notfound"
    /\ FinishedCount(threads[r]) = 1
    /\ threads[r].output_directory \notin dirs

\* the runs whose document opened and reported zero pages
EmptyRuns ==
  {r \in LiveRuns : threads[r].doc.state # "None" /\ threads[r].doc.page_count = 0}

\* C14: a document that opens with zero pages yields exactly one Finished
\* with success = false; no PageCountKnown and no ProgressTick is emitted and
\* no output file is written.
C14_EmptyDocument ==
  \A r \in EmptyRuns :
    LET t == threads[r] IN
    /\ Len(t.events) = 1
    /\ t.events[1].type = "Finished"
    /\ t.events[1].success = FALSE
    /\ t.events[1].message.kind = "Error: The PDF file is empty or could not be read."
    /\ t.written = {}
    /\ Attempted(t) = 0
    /\ t.pc \in {"finally", "done"}

\* a returned run over an empty document, its single event the failure
C14_Witness ==
  \E r \in EmptyRuns \cap EndedRuns :
    /\ threads[r].mkdir
    /\ threads[r].events[1].success = FALSE
    /\ threads[r].events[1].message.kind = "Error: The PDF file is empty or could not be read."

\* a critical QMessageBox is among the boxes shown
ShowsCritical(boxes) == \E k \in 1..Len(boxes) : boxes[k].icon = "critical"

\* the outcome run() emits when it honours the flag (line 57)
IsCancellationOutcome(e) == e.message.kind = "Conversion cancelled by user."

\* C15: user cancellation is never surfaced as a critical failure and only
\* cancellation is suppressed: on_conversion_finished shows the critical
\* dialog for every Finished with success = false that is not the
\* cancellation outcome, and shows none for the cancellation outcome.
C15_OnlyCancellationSuppressed ==
  [][on_conversion_finished =>
       LET e == Head(uiq).ev IN
       ~e.success => (ShowsCritical(dialogs') <=> ~IsCancellationOutcome(e))]_vars

\* run r repeats the run before it: the same destination and format and a
\* document of as many pages, the earlier run having gone through all of them
RepeatsPrevious(t) ==
  /\ t.prev.complete
  /\ t.prev.output_directory = t.output_directory
  /\ t.prev.image_format = t.image_format
  /\ t.prev.total_pages = t.total_pages

\* C16: re-running is idempotent on the output.  When a run repeats the run
\* before it, every page it saves that the earlier run saved too goes to the
\* file the earlier run wrote: the set of files on disk does not change, so
\* two complete runs with the same per-page save results leave the files of
\* one run.  Every file is named by the destination, the 1-based page index
\* and the format alone.
C16_RerunIdempotent ==
  /\ [](\A f \in files :
          \E d \in UserDirs \cup {SuggestedDir(p) : p \in InputPaths}, n \in 1..MaxPages :
            f = <<d, "page_", n, Lower(ComboCurrentText)>>)
  /\ [][\A r \in Runs :
          LET t == threads[r] IN
          (/\ t.live /\ threads'[r].live
           /\ t.pc = "save"
           /\ threads'[r].written # t.written
           /\ RepeatsPrevious(t)
           /\ (t.i + 1) \notin t.prev.failed)
            => files' = files]_vars

\* a second complete run over the same two-page document, with the same save
\* failure on page 1 as the run before it, and the one file of page 2 on disk
C16_Witness ==
  \E r \in CleanRuns :
    /\ RepeatsPrevious(threads[r])
    /\ threads[r].total_pages = 2
    /\ threads[r].prev.failed = {1}
    /\ threads[r].failed = {1}
    /\ files = {PageFile(threads[r], 2)}

\* the part of the run's state that the worker owns
WorkerOwned(t) == <<t.i, t.converted_count, t.page_save_errors, t.total_pages, t.doc>>

\* C17: the cancellation flag is the only state shared between the threads.
\* The shell's cancel button and confirmed window close set the flag and leave
\* the worker's page index, converted count and failure list alone; no step
\* of run() writes the flag; within a run the flag is never cleared.
C17_FlagOnlyShared ==
  [][/\ \A r \in Runs :
          LET t == threads[r]
              u == threads'[r]
          IN (t.pc # "none" /\ t.live /\ u.live)
               => /\ t.flag => u.flag
                  /\ u.flag # t.flag
                       => /\ cancel_conversion_process \/ closeEvent
                          /\ ~WorkerStep(r)
     /\ (cancel_conversion_process \/ closeEvent)
          => \A r \in Runs :
               (threads[r].pc # "none" /\ threads[r].live /\ threads'[r].live)
                 => /\ WorkerOwned(threads'[r]) = WorkerOwned(threads[r])
                    /\ threads'[r].pc = threads[r].pc]_vars

\* the window was closed on a run that had saved a page, and the run's flag
\* is set with its page index, count and failure list as the worker left them
C17_Witness ==
  /\ closed
  /\ \E r \in LiveRuns :
       /\ threads[r].flag
       /\ threads[r].i >= 1
       /\ threads[r].converted_count >= 1
       /\ threads[r].pc \in {"check", "render", "save"}

\* the shell is idle: ready to start a run, nothing to cancel, no thread
Idle ==
  /\ btn_start_conversion
  /\ ~btn_cancel_conversion
  /\ processing_thread = 0

\* C18: after every run started by start_conversion_process the shell
\* eventually returns to idle (start enabled, cancel disabled,
\* processing_thread None), whatever the outcome and whenever cancel was
\* pressed - unless the window is closed first.
C18_ReturnsToIdle == (processing_thread # 0) ~> (Idle \/ closed)

\* the value of the last ProgressTick of the run, 0 if there is none
LastTick(t) == IF Ticks(t) = <<>> THEN 0 ELSE Ticks(t)[Len(Ticks(t))].n

\* C19: at every loop boundary and when Finished is emitted,
\* converted_count + len(page_save_errors) is the value of the last
\* ProgressTick (0 if none); the failure list a Finished carries is exactly
\* the attempted pages whose save failed, ascending, none twice.  The sum is
\* stated from line 43 on, where converted_count is first assigned.
C19_Bookkeeping ==
  \A r \in LiveRuns :
    LET t == threads[r] IN
    /\ (t.mkdir /\ (t.pc = "check" \/ HasOutcome(t)))
         => t.converted_count + Len(t.page_save_errors) = LastTick(t)
    /\ t.pc = "check" => LastTick(t) = t.i
    /\ HasOutcome(t)
         => /\ IsAscendingListOf(Outcome(t).failures, t.failed)
            /\ \A n \in t.failed : n \in 1..LastTick(t)
            /\ \A f \in t.written : \A n \in t.failed : f # PageFile(t, n)

\* a returned run that saved page 1 and failed to save page 2: its outcome
\* carries the failure of page 2 and the count and the list add up to tick 2
C19_Witness ==
  \E r \in EndedRuns :
    /\ HasOutcome(threads[r])
    /\ threads[r].converted_count = 1
    /\ threads[r].page_save_errors = <<2>>
    /\ Outcome(threads[r]).failures = <<2>>
    /\ LastTick(threads[r]) = 2

\* C20: a Finished with success = true is emitted only when all P pages were
\* attempted (ProgressTick(P) was emitted) and at least one page was saved;
\* the outcome after a precondition failure, a fatal render error or a
\* cancellation honoured at a loop boundary has success = false, pages
\* already saved or not.
C20_SuccessOnlyWhenComplete ==
  \A r \in LiveRuns :
    LET t == threads[r] IN
    HasOutcome(t)
      => /\ Outcome(t).success
              => /\ t.total_pages >= 1
                 /\ LastTick(t) = t.total_pages
                 /\ Attempted(t) = t.total_pages
                 /\ t.written # {}
                 /\ t.fault = "none"
         /\ t.fault # "none" => ~Outcome(t).success
         /\ t.doc.page_count = 0 => ~Outcome(t).success
         /\ IsCancellationOutcome(Outcome(t)) => ~Outcome(t).success
         /\ (t.returning /\ t.pc \in {"finally", "done"}) => ~Outcome(t).success

\* a run cancelled at a loop boundary after it had saved a page, whose
\* outcome reports failure
C20_Witness ==
  \E r \in EndedRuns :
    /\ HasOutcome(threads[r])
    /\ IsCancellationOutcome(Outcome(threads[r]))
    /\ threads[r].written # {}
    /\ threads[r].written \subseteq files
    /\ ~Outcome(threads[r]).success

TypeOK ==
  /\ processing_thread \in 0..MaxRuns
  /\ \A r \in Runs : threads[r].i \in 0..MaxPages

====
